---- MODULE Spec2Model ----
(***************************************************************************)
(* LAS point-cloud exporter (arcgis.py): export_las_to_excel,              *)
(* export_las_to_csv, chunk_points and the batch front ends.               *)
(*                                                                         *)
(* Coordinates are exact decimals held as integers in units of 1/10000:    *)
(* a scale of 0.01 is 100, a decoded coordinate 1.00 is 10000.  Stored     *)
(* point coordinates are plain integers, as in the LAS point record.       *)
(*                                                                         *)
(* The same input file is exported by both exporters; the two runs share   *)
(* no state and their steps interleave freely.                             *)
(***************************************************************************)
EXTENDS Integers, Sequences, FiniteSets, TLC

\* ---------------------------------------------------------------- bounds
MaxPoints == 4
MaxChunk == 4
MaxRows == 3
MaxFiles == 2
MaxRuns == 2

\* ----------------------------------------------------------------- state
VARIABLES
    las,             \* the input file: header fields and point records
    chunk_size,      \* the chunk_size argument of both exporters
    EXCEL_MAX_ROWS,  \* rows per sheet, header included (scaled down)
    xl_pc,           \* position of export_las_to_excel
    wb,              \* the workbook: its sheets in creation order
    ws,              \* index in wb of the sheet `ws` refers to
    sheet_index,
    rows_in_sheet,
    xl_reader,       \* points the excel run's reader has handed out
    xl_rows,         \* rows of the current chunk not yet appended
    xl_file,         \* what exists at xlsx_path
    xl_error,        \* the exception export_las_to_excel raised
    csv_pc,          \* position of export_las_to_csv
    csv_file,        \* what exists at csv_path
    csv_reader,      \* points the csv run's reader has handed out
    csv_rows,        \* rows of the current chunk not yet written
    csv_error,       \* the exception export_las_to_csv raised
    frontend,        \* which branch of main() runs the batch: "cli" or "gui"
    files,           \* the batch: per input file, whether its export raises
    b_pc,            \* position of the batch loop (main's loop / the worker)
    idx,             \* files the batch loop has finished with
    ok,              \* the worker's ok counter
    x_ext,           \* extension of the output path the worker computed
    calls,           \* exporter calls made by the running batch, in order
    printed,         \* lines main() printed, and the traceback of a crash
    after_queue,     \* callbacks scheduled with self.after(0, ...)
    progress,        \* value of the progress bar
    status_var,
    messages,        \* message boxes shown since Export was last pressed
    controls,        \* state of the Import / Output Folder / Export buttons
    as_csv_var,      \* the "Export as CSV" checkbox
    runs,            \* times the Export button was pressed
    active           \* worker threads started and not yet returned

in_vars == <<las, chunk_size, EXCEL_MAX_ROWS>>
xl_vars == <<xl_pc, wb, ws, sheet_index, rows_in_sheet, xl_reader, xl_rows,
             xl_file, xl_error>>
csv_vars == <<csv_pc, csv_file, csv_reader, csv_rows, csv_error>>
job_vars == <<in_vars, xl_vars, csv_vars>>
gui_vars == <<x_ext, ok, after_queue, progress, status_var, messages, controls,
              as_csv_var, runs, active>>
batch_vars == <<frontend, files, b_pc, idx, calls, printed, gui_vars>>
vars == <<job_vars, batch_vars>>

\* --------------------------------------------------------------- helpers
Max(a, b) == IF a >= b THEN a ELSE b

Min(a, b) == IF a <= b THEN a ELSE b

\* The header row both exporters write.
HEADER == [kind |-> "header", values |-> <<"EASTING", "NORTHING", "ELEVATION">>]

\* A sheet title f"Points_{k}".
Title(k) == <<"Points_", k>>

\* wb.create_sheet(title=...): a sheet without rows.
create_sheet(k) == [title |-> Title(k), rows |-> <<>>]

\* Variant: the header append on a new sheet is forgotten.
NewSheet_noheader(k) == create_sheet(k)

\* ws = wb.create_sheet(...); ws.append(header)
NewSheet(k) == [create_sheet(k) EXCEPT !.rows = <<HEADER>>]

\* Variant: the header is not counted.
HeaderRows_uncounted == 1 - 1

\* rows_in_sheet right after the header is written ("header counted").
HeaderRows == 1

\* Variant: the csv header is only written together with the first chunk.
CsvHeaderLines_lazy == <<>>

\* writer.writerow(header) on the freshly opened csv file.
CsvHeaderLines == <<HEADER>>

\* Variant: the x axis' scale and offset are used for every axis.
Scaled_xaxis(v, axis) == v * las.scale[1] + las.offset[1]

\* laspy's scaled view of one axis: stored * scale + offset.
Scaled(v, axis) == v * las.scale[axis] + las.offset[axis]

\* Variant: every chunk loses its first point record.
chunk_points_skipfirst(lo, hi) ==
    <<[i \in 1..(hi - lo) |-> Scaled(las.points[lo + i].X, 1)],
      [i \in 1..(hi - lo) |-> Scaled(las.points[lo + i].Y, 2)],
      [i \in 1..(hi - lo) |-> Scaled(las.points[lo + i].Z, 3)]>>

\* chunk_points: the (x, y, z) arrays of the point records lo..hi.
chunk_points(lo, hi) ==
    <<[i \in 1..(hi - lo + 1) |-> Scaled(las.points[lo + i - 1].X, 1)],
      [i \in 1..(hi - lo + 1) |-> Scaled(las.points[lo + i - 1].Y, 2)],
      [i \in 1..(hi - lo + 1) |-> Scaled(las.points[lo + i - 1].Z, 3)]>>

\* Variant: the rows of a chunk come out last point first.
Zip_reversed(arrs) ==
    [i \in 1..Len(arrs[1]) |->
        [kind |-> "data",
         values |-> <<arrs[1][Len(arrs[1]) + 1 - i], arrs[2][Len(arrs[1]) + 1 - i],
                      arrs[3][Len(arrs[1]) + 1 - i]>>]]

\* zip(x_arr, y_arr, z_arr): one data row per point.
Zip(arrs) ==
    [i \in 1..Len(arrs[1]) |->
        [kind |-> "data", values |-> <<arrs[1][i], arrs[2][i], arrs[3][i]>>]]

\* Variant: the clamp admits a chunk size of zero.
Clamp_zero(cs) == Max(0, cs)

\* The effective chunk size, max(1, chunk_size).
Clamp(cs) == Max(1, cs)

\* Variant: the reader hands out two chunks' worth of points at once.
ChunkEnd_double(pos) == Min(pos + 2 * Clamp(chunk_size), las.point_count)

\* Last point of the chunk the reader hands out after `pos` points.
ChunkEnd(pos) == Min(pos + Clamp(chunk_size), las.point_count)

\* The chunk iterator is exhausted after point_count points.
Exhausted(pos) == pos >= las.point_count

\* Reading the next chunk raises when the file holds fewer point records
\* than the chunk needs (truncated point data).
ReadFails(pos) == ChunkEnd(pos) > las.avail

\* ------------------------------------------------------------------ Init
\* Point record i of the exported file.
PointRecord(i) == [X |-> 100 * i, Y |-> (0 - 250) * i, Z |-> 5000 * i]

\* Input files: N points, readable or not, possibly truncated.
LasFiles ==
    { [point_count |-> n, avail |-> a, openable |-> o,
       scale |-> <<100, 100, 100>>, offset |-> <<0, 0, 0>>,
       points |-> [i \in 1..n |-> PointRecord(i)]] :
      n \in 0..MaxPoints, a \in 0..MaxPoints, o \in BOOLEAN }

JobInit ==
    /\ xl_pc = "start"
    /\ wb = <<>>
    /\ ws = 0
    /\ sheet_index = 0
    /\ rows_in_sheet = 0
    /\ xl_reader = 0
    /\ xl_rows = <<>>
    /\ xl_file = [exists |-> FALSE, sheets |-> <<>>]
    /\ xl_error = "none"
    /\ csv_pc = "start"
    /\ csv_file = [exists |-> FALSE, closed |-> FALSE, lines |-> <<>>]
    /\ csv_reader = 0
    /\ csv_rows = <<>>
    /\ csv_error = "none"

\* No batch front end is running.
BatchIdle ==
    /\ frontend = "none"
    /\ files = <<>>
    /\ b_pc = "idle"
    /\ idx = 0
    /\ ok = 0
    /\ x_ext = ""
    /\ calls = <<>>
    /\ printed = <<>>
    /\ after_queue = <<>>
    /\ progress = 0
    /\ status_var = <<"Ready">>
    /\ messages = <<>>
    /\ controls = "normal"
    /\ as_csv_var = TRUE
    /\ runs = 0
    /\ active = 0

Init ==
    /\ BatchIdle
    /\ las \in { f \in LasFiles :
                   /\ f.avail <= f.point_count
                   /\ (~f.openable => f.avail = f.point_count) }
    /\ chunk_size \in (0 - 1)..MaxChunk
    /\ EXCEL_MAX_ROWS \in 2..MaxRows
    /\ JobInit

\* ---------------------------------------------------- export_las_to_excel
\* Workbook(write_only=True), first sheet, header, rows_in_sheet = 1.
XlCreate ==
    /\ xl_pc = "start"
    /\ sheet_index' = 1
    /\ wb' = <<NewSheet(1)>>
    /\ ws' = 1
    /\ rows_in_sheet' = HeaderRows
    /\ xl_pc' = "open"
    /\ UNCHANGED <<xl_reader, xl_rows, xl_file, xl_error>>

\* with laspy.open(las_path) as reader: raises on an unreadable file.
XlOpen ==
    /\ xl_pc = "open"
    /\ IF las.openable
         THEN /\ xl_pc' = "read"
              /\ xl_error' = xl_error
         ELSE /\ xl_pc' = "failed"
              /\ xl_error' = "source"
    /\ UNCHANGED <<wb, ws, sheet_index, rows_in_sheet, xl_reader, xl_rows, xl_file>>

\* for x_arr, y_arr, z_arr in chunk_points(reader, max(1, chunk_size))
XlNextChunk ==
    /\ xl_pc = "read"
    /\ IF Exhausted(xl_reader)
         THEN /\ xl_pc' = "save"
              /\ UNCHANGED <<xl_reader, xl_rows, xl_error>>
         ELSE IF ReadFails(xl_reader)
           THEN /\ xl_pc' = "failed"
                /\ xl_error' = "source"
                /\ UNCHANGED <<xl_reader, xl_rows>>
           ELSE /\ xl_rows' = Zip(chunk_points(xl_reader + 1, ChunkEnd(xl_reader)))
                /\ xl_reader' = ChunkEnd(xl_reader)
                /\ xl_pc' = IF xl_rows' = <<>> THEN "read" ELSE "write"
                /\ xl_error' = xl_error
    /\ UNCHANGED <<wb, ws, sheet_index, rows_in_sheet, xl_file>>

\* Variant: the rollover happens one row early.
NeedNewSheet_early == rows_in_sheet >= EXCEL_MAX_ROWS - 1

\* Variant: the rollover test is off by one.
NeedNewSheet_late == rows_in_sheet > EXCEL_MAX_ROWS

\* The sheet rollover test of the row loop.
NeedNewSheet == rows_in_sheet >= EXCEL_MAX_ROWS

\* ws.append(row) on the sheet ws refers to.
Append_ws(book, k, row) == [book EXCEPT ![k].rows = Append(@, row)]

\* One iteration of `for row in zip(x_arr, y_arr, z_arr)`.
XlWriteRow ==
    /\ xl_pc = "write"
    /\ xl_rows # <<>>
    /\ LET row == Head(xl_rows)
           roll == NeedNewSheet
           index == IF roll THEN sheet_index + 1 ELSE sheet_index
           book == IF roll
                     THEN Append(wb, NewSheet(index))
                     ELSE wb
           cur == IF roll THEN Len(book) ELSE ws
           cnt == IF roll THEN HeaderRows ELSE rows_in_sheet
       IN /\ sheet_index' = index
          /\ ws' = cur
          /\ wb' = Append_ws(book, cur, row)
          /\ rows_in_sheet' = cnt + 1
    /\ xl_rows' = Tail(xl_rows)
    /\ xl_pc' = IF Tail(xl_rows) = <<>> THEN "read" ELSE "write"
    /\ UNCHANGED <<xl_reader, xl_file, xl_error>>

\* wb.save(xlsx_path); wb.close()
XlSave ==
    /\ xl_pc = "save"
    /\ xl_file' = [exists |-> TRUE, sheets |-> wb]
    /\ xl_pc' = "done"
    /\ UNCHANGED <<wb, ws, sheet_index, rows_in_sheet, xl_reader, xl_rows, xl_error>>

XlStep == (XlCreate \/ XlOpen \/ XlNextChunk \/ XlWriteRow \/ XlSave)
            /\ UNCHANGED <<in_vars, csv_vars, batch_vars>>

\* ------------------------------------------------------ export_las_to_csv
\* open(csv_path, "w"), csv.writer, header row.
CsvCreate ==
    /\ csv_pc = "start"
    /\ csv_file' = [exists |-> TRUE, closed |-> FALSE, lines |-> CsvHeaderLines]
    /\ csv_pc' = "open"
    /\ UNCHANGED <<csv_reader, csv_rows, csv_error>>

\* with laspy.open(las_path) as reader; leaving the outer `with` on an
\* exception closes f.
CsvOpen ==
    /\ csv_pc = "open"
    /\ IF las.openable
         THEN /\ csv_pc' = "read"
              /\ UNCHANGED <<csv_file, csv_error>>
         ELSE /\ csv_pc' = "failed"
              /\ csv_error' = "source"
              /\ csv_file' = [csv_file EXCEPT !.closed = TRUE]
    /\ UNCHANGED <<csv_reader, csv_rows>>

\* for x_arr, y_arr, z_arr in chunk_points(reader, max(1, chunk_size))
CsvNextChunk ==
    /\ csv_pc = "read"
    /\ IF Exhausted(csv_reader)
         THEN /\ csv_pc' = "done"
              /\ csv_file' = [csv_file EXCEPT !.closed = TRUE]
              /\ UNCHANGED <<csv_reader, csv_rows, csv_error>>
         ELSE IF ReadFails(csv_reader)
           THEN /\ csv_pc' = "failed"
                /\ csv_error' = "source"
                /\ csv_file' = [csv_file EXCEPT !.closed = TRUE]
                /\ UNCHANGED <<csv_reader, csv_rows>>
           ELSE /\ csv_rows' = Zip(chunk_points(csv_reader + 1, ChunkEnd(csv_reader)))
                /\ csv_reader' = ChunkEnd(csv_reader)
                /\ csv_pc' = "write"
                /\ UNCHANGED <<csv_file, csv_error>>

\* writer.writerows(zip(x_arr, y_arr, z_arr))
CsvWriteRows ==
    /\ csv_pc = "write"
    /\ csv_file' = [csv_file EXCEPT !.lines = @ \o csv_rows]
    /\ csv_rows' = <<>>
    /\ csv_pc' = "read"
    /\ UNCHANGED <<csv_reader, csv_error>>

CsvStep == (CsvCreate \/ CsvOpen \/ CsvNextChunk \/ CsvWriteRows)
             /\ UNCHANGED <<in_vars, xl_vars, batch_vars>>

\* ------------------------------------------------------------------ Spec
Next == XlStep \/ CsvStep

Spec == Init /\ [][Next]_vars

\* Each export is a sequential run that keeps executing its next statement.
FairSpec == Spec /\ WF_vars(XlStep) /\ WF_vars(CsvStep)

TypeOK ==
    /\ xl_pc \in {"start", "open", "read", "write", "save", "done", "failed"}
    /\ csv_pc \in {"start", "open", "read", "write", "done", "failed"}
    /\ rows_in_sheet \in 0..EXCEL_MAX_ROWS
    /\ xl_reader \in 0..las.point_count
    /\ csv_reader \in 0..las.point_count


\* ------------------------------------------------------ batch front ends
\* An exporter call on file i raises exactly when the file is damaged
\* (unreadable or truncated); the call is recorded with what it was given.
Call(i, exporter, ext) ==
    [file |-> i, exporter |-> exporter, ext |-> ext, raised |-> files[i]]

\* The input file used while a batch front end runs: the exporters'
\* internals are not stepped there.
NoLas ==
    [point_count |-> 0, avail |-> 0, openable |-> TRUE,
     scale |-> <<100, 100, 100>>, offset |-> <<0, 0, 0>>, points |-> <<>>]

BatchInit ==
    /\ frontend \in {"cli", "gui"}
    /\ files \in UNION { [1..n -> BOOLEAN] : n \in 0..MaxFiles }
    /\ b_pc = "idle"
    /\ idx = 0
    /\ ok = 0
    /\ x_ext = ""
    /\ calls = <<>>
    /\ printed = <<>>
    /\ after_queue = <<>>
    /\ progress = 0
    /\ status_var = <<"Ready">>
    /\ messages = <<>>
    /\ controls = "normal"
    /\ as_csv_var = TRUE
    /\ runs = 0
    /\ active = 0
    /\ las = NoLas
    /\ chunk_size = MaxChunk
    /\ EXCEL_MAX_ROWS = MaxRows
    /\ JobInit

\* main(), command-line mode: no valid input file among the arguments.
CliNoFiles ==
    /\ frontend = "cli"
    /\ b_pc = "idle"
    /\ files = <<>>
    /\ printed' = Append(printed, <<"No valid input files provided.">>)
    /\ b_pc' = "done"
    /\ UNCHANGED <<frontend, files, idx, calls, gui_vars>>

\* One iteration of `for las_path in files` in main(): an exception of
\* export_las_to_csv is not caught and ends main() with a traceback.
CliExport ==
    /\ frontend = "cli"
    /\ b_pc \in {"idle", "loop"}
    /\ idx < Len(files)
    /\ LET call == Call(idx + 1, "csv", ".csv")
       IN /\ calls' = Append(calls, call)
          /\ IF call.raised
               THEN /\ printed' = Append(printed, <<"Traceback", idx + 1>>)
                    /\ b_pc' = "crashed"
                    /\ idx' = idx
               ELSE /\ printed' = Append(printed, <<"Exported", idx + 1>>)
                    /\ b_pc' = "loop"
                    /\ idx' = idx + 1
    /\ UNCHANGED <<frontend, files, gui_vars>>

\* The loop of main() is over: return.
CliReturn ==
    /\ frontend = "cli"
    /\ b_pc = "loop"
    /\ idx = Len(files)
    /\ b_pc' = "done"
    /\ UNCHANGED <<frontend, files, idx, calls, printed, gui_vars>>

\* Variant: the buttons are left enabled.
disable_controls_skipped == "normal"

\* App.disable_controls: Import, Output Folder and Export are disabled.
disable_controls == "disabled"

\* App.enable_controls: the three buttons are enabled again.
enable_controls == "normal"

\* App.on_import with a non-empty selection, reachable while the Import
\* button is enabled (a cancelled dialog changes nothing).
on_import ==
    /\ frontend = "gui"
    /\ controls = "normal"
    /\ \E paths \in UNION { [1..n -> BOOLEAN] : n \in 1..MaxFiles } :
          /\ files' = paths
          /\ status_var' = <<"Selected", Len(paths)>>
    /\ UNCHANGED <<frontend, b_pc, idx, ok, x_ext, calls, printed, after_queue,
                   progress, messages, controls, as_csv_var, runs, active>>

\* App.on_export, reachable while the Export button is enabled; the worker
\* thread it starts begins _export_worker with ok = 0.
on_export ==
    /\ frontend = "gui"
    /\ controls = "normal"
    /\ runs < MaxRuns
    /\ runs' = runs + 1
    /\ IF files = <<>>
         THEN /\ messages' = <<<<"No files">>>>
              /\ UNCHANGED <<controls, progress, status_var, b_pc, idx, ok,
                             calls, active>>
         ELSE /\ controls' = disable_controls
              /\ progress' = 0
              /\ status_var' = <<"Exporting...">>
              /\ b_pc' = "loop"
              /\ idx' = 0
              /\ ok' = 0
              /\ calls' = <<>>
              /\ active' = active + 1
              /\ messages' = <<>>
    /\ UNCHANGED <<frontend, files, x_ext, printed, after_queue, as_csv_var>>

\* The user ticks or clears the "Export as CSV" checkbox.
ToggleCsv ==
    /\ frontend = "gui"
    /\ as_csv_var' = ~as_csv_var
    /\ UNCHANGED <<frontend, files, b_pc, idx, ok, x_ext, calls, printed,
                   after_queue, progress, status_var, messages, controls, runs,
                   active>>

\* _export_worker: compute x_path for the next file (either branch of the
\* output_dir test reads the checkbox once).
WorkerPath ==
    /\ frontend = "gui"
    /\ b_pc = "loop"
    /\ idx < Len(files)
    /\ x_ext' = IF as_csv_var THEN ".csv" ELSE ".xlsx"
    /\ b_pc' = "export"
    /\ UNCHANGED <<frontend, files, idx, ok, calls, printed, after_queue,
                   progress, status_var, messages, controls, as_csv_var, runs,
                   active>>

\* Variant: ok is counted whether or not the export raised.
OkAfter_always(raised) == ok + 1

\* ok += 1 as the last statement of the try block.
OkAfter(raised) == IF raised THEN ok ELSE ok + 1

\* _export_worker: call the exporter the checkbox selects; except: schedule
\* the error box; finally: schedule the progress update.
WorkerExport ==
    /\ frontend = "gui"
    /\ b_pc = "export"
    /\ LET call == Call(idx + 1, IF as_csv_var THEN "csv" ELSE "excel", x_ext)
           errs == IF call.raised
                     THEN <<[do |-> "showerror", arg |-> idx + 1]>>
                     ELSE <<>>
       IN /\ calls' = Append(calls, call)
          /\ ok' = OkAfter(call.raised)
          /\ after_queue' = after_queue \o errs
                              \o <<[do |-> "progress", arg |-> idx + 1]>>
    /\ idx' = idx + 1
    /\ b_pc' = "loop"
    /\ UNCHANGED <<frontend, files, x_ext, printed, progress, status_var,
                   messages, controls, as_csv_var, runs, active>>

\* _export_worker after the last file: schedule _export_done(ok); the
\* thread then returns.
WorkerDone ==
    /\ frontend = "gui"
    /\ b_pc = "loop"
    /\ idx = Len(files)
    /\ after_queue' = Append(after_queue, [do |-> "_export_done", arg |-> ok])
    /\ b_pc' = "finished"
    /\ active' = active - 1
    /\ UNCHANGED <<frontend, files, idx, ok, x_ext, calls, printed, progress,
                   status_var, messages, controls, as_csv_var, runs>>

\* The Tk main loop runs the oldest scheduled callback.
Dispatch ==
    /\ frontend = "gui"
    /\ after_queue # <<>>
    /\ LET cb == Head(after_queue)
       IN CASE cb.do = "showerror" ->
                 /\ messages' = Append(messages, <<"Error", cb.arg>>)
                 /\ UNCHANGED <<progress, status_var, controls>>
            [] cb.do = "progress" ->
                 /\ progress' = cb.arg
                 /\ UNCHANGED <<messages, status_var, controls>>
            [] cb.do = "_export_done" ->
                 /\ status_var' = <<"Completed", cb.arg, Len(files)>>
                 /\ controls' = enable_controls
                 /\ messages' = IF cb.arg > 0
                                  THEN Append(messages, <<"Done", cb.arg>>)
                                  ELSE messages
                 /\ UNCHANGED progress
    /\ after_queue' = Tail(after_queue)
    /\ UNCHANGED <<frontend, files, b_pc, idx, ok, x_ext, calls, printed,
                   as_csv_var, runs, active>>

BatchNext ==
    /\ \/ CliNoFiles \/ CliExport \/ CliReturn
       \/ on_import \/ on_export \/ ToggleCsv
       \/ WorkerPath \/ WorkerExport \/ WorkerDone
       \/ Dispatch
    /\ UNCHANGED job_vars

BatchSpec == BatchInit /\ [][BatchNext]_vars

\* The steps of the worker thread.
WorkerStep == (WorkerPath \/ WorkerExport \/ WorkerDone) /\ UNCHANGED job_vars

\* The steps of the Tk main loop on scheduled callbacks.
MainLoopStep == Dispatch /\ UNCHANGED job_vars

\* The worker thread keeps running and the main loop keeps running the
\* callbacks scheduled with after(0, ...).
FairBatchSpec == BatchSpec /\ WF_vars(WorkerStep) /\ WF_vars(MainLoopStep)

\* ------------------------------------------------ reading the outputs back
N == las.point_count

\* The decoded row the input's i-th point stands for.
ExpectedRow(i) ==
    [kind |-> "data",
     values |-> <<las.points[i].X * las.scale[1] + las.offset[1],
                  las.points[i].Y * las.scale[2] + las.offset[2],
                  las.points[i].Z * las.scale[3] + las.offset[3]>>]

\* Two rows are the same row.
RowEq(a, b) == a.kind = b.kind /\ a.values = b.values

\* Two row sequences are the same sequence.
RowsEq(s, t) == Len(s) = Len(t) /\ \A i \in 1..Len(s) : RowEq(s[i], t[i])

IsData(r) == r.kind = "data"

DataRows(rows) == SelectSeq(rows, IsData)

RECURSIVE Concat(_)
\* The rows of the sheets, in sheet order.
Concat(sheets) ==
    IF sheets = <<>> THEN <<>> ELSE Head(sheets).rows \o Concat(Tail(sheets))

\* How often the row of point i occurs among rows.
Occurrences(rows, i) ==
    Cardinality({ j \in 1..Len(rows) : RowEq(rows[j], ExpectedRow(i)) })

\* Exactly the N input points, each once.
EachPointOnce(rows) ==
    /\ Len(DataRows(rows)) = N
    /\ \A i \in 1..N : Occurrences(rows, i) = 1

\* Smallest q with q * d >= n, for d > 0 and n >= 0.
Ceil(n, d) == (n + d - 1) \div d

XlDone == xl_pc = "done"

CsvDone == csv_pc = "done"

\* --------------------------------------------------------------------- C1
\* C1: a successful export writes exactly N data rows in total across all
\* sheets / in the file: every input point once, none dropped, none twice.
C1_ExactlyNRows ==
    /\ XlDone => EachPointOnce(Concat(xl_file.sheets))
    /\ CsvDone => EachPointOnce(csv_file.lines)

\* Both exports done, with a sheet rollover and more than one chunk.
C1_Witness ==
    /\ XlDone /\ CsvDone
    /\ Len(xl_file.sheets) >= 2
    /\ Clamp(chunk_size) < N

\* --------------------------------------------------------------------- C2
\* The input's rows in input order.
InputRows == [i \in 1..N |-> ExpectedRow(i)]

\* The sheets a run leaves, as a function of the input and the sheet limit
\* alone: sheet k holds the header and points (k-1)(R-1)+1 .. k(R-1).
SheetsOf(n, R) ==
    [k \in 1..Max(1, Ceil(n, R - 1)) |->
        [title |-> Title(k),
         rows |-> <<HEADER>> \o
                  SubSeq(InputRows, (k - 1) * (R - 1) + 1, Min(k * (R - 1), n))]]

SheetsEq(a, b) ==
    /\ Len(a) = Len(b)
    /\ \A k \in 1..Len(a) : a[k].title = b[k].title /\ RowsEq(a[k].rows, b[k].rows)

\* C2: the data rows of the output, pages concatenated in creation order,
\* are the input points in input order, and the pages are the same for
\* every chunk_size: they depend on the input and the row limit only.
C2_OrderAndChunkIndependence ==
    /\ XlDone => /\ RowsEq(DataRows(Concat(xl_file.sheets)), InputRows)
                 /\ SheetsEq(xl_file.sheets, SheetsOf(N, EXCEL_MAX_ROWS))
    /\ CsvDone => /\ RowsEq(DataRows(csv_file.lines), InputRows)
                  /\ RowsEq(csv_file.lines, <<HEADER>> \o InputRows)

\* Both exports done on at least three points read in several chunks whose
\* boundaries differ from the sheet boundaries.
C2_Witness ==
    /\ XlDone /\ CsvDone
    /\ N >= 3
    /\ Clamp(chunk_size) < N
    /\ Clamp(chunk_size) # EXCEL_MAX_ROWS - 1
    /\ Len(xl_file.sheets) >= 2

\* --------------------------------------------------------------------- C3
\* C3: no sheet ever holds more than EXCEL_MAX_ROWS rows, header included,
\* and once the first sheet exists rows_in_sheet is the number of rows of
\* the current sheet and lies in 1..EXCEL_MAX_ROWS.
C3_RowLimit ==
    /\ \A k \in 1..Len(wb) : Len(wb[k].rows) <= EXCEL_MAX_ROWS
    /\ \A k \in 1..Len(xl_file.sheets) :
           Len(xl_file.sheets[k].rows) <= EXCEL_MAX_ROWS
    /\ xl_pc # "start" =>
           /\ ws \in 1..Len(wb)
           /\ rows_in_sheet = Len(wb[ws].rows)
           /\ rows_in_sheet \in 1..EXCEL_MAX_ROWS

\* A second sheet has been filled to the limit.
C3_Witness ==
    /\ Len(wb) >= 2
    /\ rows_in_sheet = EXCEL_MAX_ROWS
    /\ Len(wb[1].rows) = EXCEL_MAX_ROWS

\* --------------------------------------------------------------------- C4
\* C4 as stated: the number of pages is ceil((N+1)/(R-1)).
C4_PagesAsStated ==
    XlDone => Len(xl_file.sheets) = Ceil(N + 1, EXCEL_MAX_ROWS - 1)

\* C4 amended: the number of pages is max(1, ceil(N/(R-1))).
C4_Pages ==
    XlDone => Len(xl_file.sheets) = Max(1, Ceil(N, EXCEL_MAX_ROWS - 1))

\* A finished export whose point count is a positive multiple of R-1, the
\* case where the two formulas differ.
C4_Witness ==
    /\ XlDone
    /\ N > 0
    /\ N % (EXCEL_MAX_ROWS - 1) = 0
    /\ Len(xl_file.sheets) >= 2

\* --------------------------------------------------------------------- C5
\* Every sheet starts with the header, has it nowhere else, and is titled
\* Points_k for its position k; ws is the newest sheet.
C5_State ==
    /\ \A k \in 1..Len(wb) :
          /\ wb[k].title = Title(k)
          /\ Len(wb[k].rows) >= 1
          /\ RowEq(wb[k].rows[1], HEADER)
          /\ \A j \in 2..Len(wb[k].rows) : ~RowEq(wb[k].rows[j], HEADER)
    /\ sheet_index = Len(wb)
    /\ xl_pc # "start" => ws = Len(wb)

\* A step adds at most one sheet, removes none, and changes no sheet other
\* than the newest one.
C5_Step ==
    /\ Len(wb') \in {Len(wb), Len(wb) + 1}
    /\ sheet_index' \in {sheet_index, sheet_index + 1}
    /\ \A k \in 1..Len(wb) : wb'[k] # wb[k] => k = Len(wb')

\* C5: every page's first row is the header and the header is nowhere else
\* on it; pages are titled Points_1, Points_2, ... in steps of one; a row
\* is only ever appended to the most recently created page.
C5_HeaderTitlesNoRevisit == []C5_State /\ [][C5_Step]_vars

\* A row was appended to the third sheet while two older ones exist.
C5_Witness ==
    /\ Len(wb) >= 3
    /\ Len(wb[3].rows) >= 2

\* --------------------------------------------------------------------- C6
\* C6: a zero-point input exports successfully and leaves one sheet
\* Points_1 holding only the header in a saved workbook, and one csv file
\* holding only the header line.
C6_ZeroPoints ==
    (N = 0 /\ las.openable) =>
        /\ xl_pc # "failed" /\ csv_pc # "failed"
        /\ XlDone => /\ xl_file.exists
                     /\ Len(xl_file.sheets) = 1
                     /\ xl_file.sheets[1].title = Title(1)
                     /\ RowsEq(xl_file.sheets[1].rows, <<HEADER>>)
        /\ CsvDone => /\ csv_file.exists /\ csv_file.closed
                      /\ RowsEq(csv_file.lines, <<HEADER>>)

\* Both exports of a zero-point input are done.
C6_Witness == N = 0 /\ las.openable /\ XlDone /\ CsvDone

\* --------------------------------------------------------------------- C8
\* C8 as stated: an export that failed on a source error has finalized its
\* sink (csv file closed, workbook saved to the destination) and reports
\* the source error.
C8_SinkFinalizedOnFailure ==
    /\ xl_pc = "failed" => xl_file.exists /\ xl_error = "source"
    /\ csv_pc = "failed" => csv_file.exists /\ csv_file.closed /\ csv_error = "source"

\* --------------------------------------------------------------------- C9
Damaged == ~las.openable \/ las.avail < las.point_count

\* C9 as stated: a truncated or unreadable input makes the export fail
\* with an error, and both exporters then leave the destination the same
\* way: both no file, or both a finalized header-bearing container.
C9_SameFailurePolicy ==
    /\ Damaged => ~XlDone /\ ~CsvDone
    /\ xl_pc = "failed" => xl_error # "none"
    /\ csv_pc = "failed" => csv_error # "none"
    /\ (xl_pc = "failed" /\ csv_pc = "failed") =>
          /\ xl_file.exists <=> csv_file.exists
          /\ csv_file.exists =>
                csv_file.closed /\ Len(csv_file.lines) >= 1
                /\ RowEq(csv_file.lines[1], HEADER)
          /\ xl_file.exists =>
                Len(xl_file.sheets) >= 1 /\ Len(xl_file.sheets[1].rows) >= 1
                /\ RowEq(xl_file.sheets[1].rows[1], HEADER)

\* --------------------------------------------------------------------- C7
\* The batch loop has ended: main() returned or crashed, or the worker
\* scheduled _export_done (and the buttons are not yet enabled again).
BatchEnded ==
    \/ b_pc \in {"done", "crashed"}
    \/ b_pc = "finished" /\ controls = "disabled"

Attempted == { calls[k].file : k \in 1..Len(calls) }

\* The inputs an error was reported for: error boxes scheduled or shown,
\* and the traceback of a crashed main().
Reported ==
    { after_queue[k].arg : k \in { j \in 1..Len(after_queue) :
                                      after_queue[j].do = "showerror" } }
    \cup { messages[k][2] : k \in { j \in 1..Len(messages) :
                                      messages[j][1] = "Error" } }
    \cup { printed[k][2] : k \in { j \in 1..Len(printed) :
                                     printed[j][1] = "Traceback" } }

\* C7 as stated: in both front ends a failing input does not abort its
\* siblings: when the batch loop has ended every input was attempted, once,
\* and errors are reported for the failed inputs only.
C7_BatchContinues ==
    BatchEnded =>
        /\ Attempted = 1..Len(files)
        /\ Len(calls) = Len(files)
        /\ \A i \in Reported : files[i]

\* ------------------------------------------------------------------- C10
StoredValues == {0 - 250, 100, 5000}

Scales == {<<100, 100, 100>>, <<100, 10, 1000>>}

Offsets == {<<0, 0, 0>>, <<5000, 0 - 10000, 20000>>}

\* One-point inputs over every stored triple, scale and offset.
DecodeFiles ==
    { [point_count |-> 1, avail |-> 1, openable |-> TRUE,
       scale |-> s, offset |-> o, points |-> <<[X |-> x, Y |-> y, Z |-> z]>>] :
      s \in Scales, o \in Offsets,
      x \in StoredValues, y \in StoredValues, z \in StoredValues }

DecodeInit ==
    /\ BatchIdle
    /\ las \in DecodeFiles
    /\ chunk_size = MaxChunk
    /\ EXCEL_MAX_ROWS = MaxRows
    /\ JobInit

DecodeSpec == DecodeInit /\ [][Next]_vars

\* The j-th data row written is the decoded j-th point.
Decoded(rows) ==
    \A j \in 1..Len(DataRows(rows)) :
        j <= N /\ DataRows(rows)[j].values = ExpectedRow(j).values

\* The worked example: scale 0.01, offset 0, stored (100, -250, 5000).
Example ==
    /\ las.scale = <<100, 100, 100>>
    /\ las.offset = <<0, 0, 0>>
    /\ las.points[1] = [X |-> 100, Y |-> 0 - 250, Z |-> 5000]

ExampleRow(rows) ==
    \A j \in 1..Len(DataRows(rows)) :
        DataRows(rows)[j].values = <<10000, 0 - 25000, 500000>>

\* C10: every written coordinate is stored * scale + offset of its own
\* axis, exactly; scale 0.01, offset 0 and stored (100, -250, 5000) give
\* the row (1.00, -2.50, 50.00).
C10_Coordinates ==
    /\ Decoded(csv_file.lines)
    /\ Decoded(Concat(wb))
    /\ Decoded(Concat(xl_file.sheets))
    /\ Example => /\ ExampleRow(csv_file.lines)
                  /\ ExampleRow(Concat(xl_file.sheets))

\* Both exports of the worked example are done.
C10_Witness ==
    /\ Example
    /\ XlDone /\ CsvDone
    /\ Len(DataRows(csv_file.lines)) = 1
    /\ Len(DataRows(Concat(xl_file.sheets))) = 1

\* ------------------------------------------------------------------- C11
\* Every sheet after the first holds at least one data row.
C11_NoHeaderOnlyPage ==
    \A k \in 2..Len(wb) : Len(wb[k].rows) >= 2

\* A step that opens a sheet finds the current one holding R rows and
\* leaves the new one holding the header and one data row.
C11_Rollover ==
    (Len(wb) >= 1 /\ Len(wb') = Len(wb) + 1) =>
        /\ Len(wb[Len(wb)].rows) = EXCEL_MAX_ROWS
        /\ Len(wb'[Len(wb')].rows) = 2

\* After a successful export every sheet but the last holds R rows and the
\* last holds 1 + (N - (pages-1)(R-1)) rows.
C11_Sizes ==
    XlDone =>
        LET P == Len(xl_file.sheets)
        IN /\ \A k \in 1..(P - 1) :
                 Len(xl_file.sheets[k].rows) = EXCEL_MAX_ROWS
           /\ Len(xl_file.sheets[P].rows) =
                 1 + (N - (P - 1) * (EXCEL_MAX_ROWS - 1))
           /\ \A k \in 2..P : Len(xl_file.sheets[k].rows) >= 2

\* C11: a new page is opened only when a data row is about to be written
\* to a page that already holds R rows; after a successful export every
\* page but the last holds R rows, the last 1 + (N - (pages-1)(R-1)), and
\* no page other than Points_1 is ever a header alone.
C11_PageFill ==
    /\ [](C11_NoHeaderOnlyPage /\ C11_Sizes)
    /\ [][C11_Rollover]_vars

\* A finished export of exactly two full pages: N = 2(R-1), no third page.
C11_Witness ==
    /\ XlDone
    /\ N = 2 * (EXCEL_MAX_ROWS - 1)
    /\ Len(xl_file.sheets) = 2
    /\ Len(xl_file.sheets[2].rows) = EXCEL_MAX_ROWS

\* ------------------------------------------------------------------- C12
\* At most one chunk of at most max(1, chunk_size) rows is held, and every
\* point handed out before it is already in the sink.
C12_OneChunkHeld ==
    /\ Len(xl_rows) <= Clamp(chunk_size)
    /\ Len(csv_rows) <= Clamp(chunk_size)
    /\ Len(DataRows(Concat(wb))) + Len(xl_rows) = xl_reader
    /\ Len(DataRows(csv_file.lines)) + Len(csv_rows) = csv_reader

\* The workbook is saved, and the csv file closed, with no row pending;
\* a successful run finalizes after the last chunk of the input.
C12_FinalizeLast ==
    /\ xl_file.exists => /\ xl_rows = <<>>
                         /\ xl_reader = N
                         /\ Len(DataRows(Concat(xl_file.sheets))) = N
    /\ csv_file.closed => /\ csv_rows = <<>>
                          /\ Len(DataRows(csv_file.lines)) = csv_reader
    /\ CsvDone => csv_file.closed /\ csv_reader = N

\* A chunk is requested only when no row of the previous one is pending,
\* and the reader only moves forward.
C12_Request ==
    /\ xl_reader' # xl_reader => xl_rows = <<>> /\ xl_reader' > xl_reader
    /\ csv_reader' # csv_reader => csv_rows = <<>> /\ csv_reader' > csv_reader

\* C12: chunks are processed one at a time in source order: all rows of a
\* chunk are in the sink before the next chunk is requested, at most one
\* chunk is held, and the output is finalized only after the last chunk
\* has been fully written.
C12_ChunkByChunk ==
    /\ [](C12_OneChunkHeld /\ C12_FinalizeLast)
    /\ [][C12_Request]_vars

\* The excel run holds its second chunk of several rows, the first chunk
\* being fully written.
C12_Witness ==
    /\ xl_pc = "write"
    /\ Clamp(chunk_size) >= 2
    /\ Len(xl_rows) = Clamp(chunk_size)
    /\ xl_reader = 2 * Clamp(chunk_size)
    /\ Len(DataRows(Concat(wb))) = Clamp(chunk_size)

\* ------------------------------------------------------------------- C13
XlEnded == xl_pc \in {"done", "failed"}

CsvEnded == csv_pc \in {"done", "failed"}

\* A chunk request made while points remain raises or hands out at least
\* one point.
C13_Progress ==
    /\ (xl_pc = "read" /\ xl_reader < N /\ xl_vars' # xl_vars
           /\ xl_pc' # "failed") => xl_reader' > xl_reader
    /\ (csv_pc = "read" /\ csv_reader < N /\ csv_vars' # csv_vars
           /\ csv_pc' # "failed") => csv_reader' > csv_reader

\* With chunk_size below 1 chunks hold one point and the outcome is the
\* one of chunk_size = 1: the full pages on success, and on a truncated
\* input the csv rows of the points that could be read one by one.
C13_AsChunkOne ==
    chunk_size < 1 =>
        /\ Len(xl_rows) <= 1 /\ Len(csv_rows) <= 1
        /\ XlDone => SheetsEq(xl_file.sheets, SheetsOf(N, EXCEL_MAX_ROWS))
        /\ CsvDone => RowsEq(csv_file.lines, <<HEADER>> \o InputRows)
        /\ (csv_pc = "failed" /\ las.openable) =>
              RowsEq(csv_file.lines,
                     <<HEADER>> \o SubSeq(InputRows, 1, las.avail))

\* C13: for every input and every chunk_size, 0 and negative included, the
\* export terminates; a chunk_size below 1 acts as 1, every chunk pulled
\* while points remain holds at least one point, and the result is the
\* one of chunk_size = 1.
C13_Terminates ==
    /\ <>XlEnded
    /\ <>CsvEnded
    /\ []C13_AsChunkOne
    /\ [][C13_Progress]_vars

\* Both exports of several points are done with a chunk_size below 1.
C13_Witness ==
    /\ chunk_size < 1
    /\ N >= 2
    /\ XlDone /\ CsvDone

\* ------------------------------------------------------------------- C14
\* At most one worker thread is alive, and only with the buttons disabled.
C14_OneWorker ==
    /\ active \in {0, 1}
    /\ active = 1 => controls = "disabled"

\* The file list is untouched while a worker is alive; a worker is started
\* with the buttons already disabled; the buttons are enabled again only
\* by _export_done, after the worker finished the last file and returned.
C14_Step ==
    /\ active >= 1 => files' = files
    /\ active' > active => controls' = "disabled"
    /\ (controls = "disabled" /\ controls' = "normal") =>
          /\ active = 0
          /\ b_pc = "finished"
          /\ idx = Len(files)
          /\ Head(after_queue).do = "_export_done"

\* C14: at most one export worker is active at any time and the selected
\* files do not change while it runs: on_export disables the buttons
\* before starting the worker and only _export_done, scheduled after the
\* last file, enables them again.
C14_SingleWorker == []C14_OneWorker /\ [][C14_Step]_vars

\* A second export is running, started after the first one completed.
C14_Witness ==
    /\ active = 1
    /\ runs = 2
    /\ controls = "disabled"
    /\ idx >= 1

\* ------------------------------------------------------------------- C15
\* The files whose export raises no error.
NumGood == Cardinality({ i \in 1..Len(files) : ~files[i] })

\* The files of the exporter calls made so far, in call order.
CalledFiles == [k \in 1..Len(calls) |-> calls[k].file]

\* A run is under way: the buttons are disabled.
Exporting == controls = "disabled"

\* _export_done ran for the whole list: status, progress and buttons.
Completed ==
    /\ controls = "normal"
    /\ status_var = <<"Completed", NumGood, Len(files)>>
    /\ progress = Len(files)

\* While a run is under way the calls made are the first idx files in list
\* order, and when the worker has finished every file was attempted once
\* and ok counts the exports that did not raise.
C15_Attempts ==
    Exporting =>
        /\ CalledFiles = [k \in 1..Len(calls) |-> k]
        /\ ok \in 0..Len(files)
        /\ b_pc = "finished" =>
              /\ Len(calls) = Len(files)
              /\ ok = NumGood

\* C15: every export run that is started completes: the worker attempts
\* every file once in list order, progress reaches the number of files,
\* _export_done runs with ok = the number of exports that raised nothing,
\* and the buttons are enabled again.
C15_RunCompletes ==
    /\ []C15_Attempts
    /\ (Exporting ~> Completed)

\* A run over two files, one failing and one succeeding, has completed.
C15_Witness ==
    /\ Completed
    /\ Len(files) = 2
    /\ NumGood = 1
    /\ Len(calls) = 2

\* ------------------------------------------------------------------- C16
\* C16 as stated: every exporter call of the worker gets an output path
\* whose extension is the exporter's own, whatever the user does with the
\* checkbox meanwhile.
C16_ExtMatchesExporter ==
    \A k \in 1..Len(calls) :
        /\ calls[k].ext = ".csv" <=> calls[k].exporter = "csv"
        /\ calls[k].ext = ".xlsx" <=> calls[k].exporter = "excel"
====
